---- MODULE Spec2Model ----
(***************************************************************************)
(* Model of kws-japan/mt-info:                                             *)
(*   simple1.py  predict_boiling_point, plot_boiling_points, prompt loop   *)
(*   simple2.py  predict_tg, main (example monomers, SMILES prompt loop)   *)
(*                                                                         *)
(* Numbers.  Python floats are modelled as exact fixed-point rationals:    *)
(*   - a Tg (Kelvin) is an integer count of 1/KelvinUnit K;                *)
(*   - a molecular weight is an integer count of 1/MolWtUnit g/mol;        *)
(*   - a boiling point is the numerator of a fraction whose denominator    *)
(*     is FitDen (in tenths of a degree C).                                *)
(* IEEE-754 rounding of the double arithmetic is not modelled.             *)
(*                                                                         *)
(* Strings read by input() are sequences of one-character strings.         *)
(* An optional value (Python None or a value) is <<>> or <<v>>.            *)
(***************************************************************************)
EXTENDS Integers, Sequences, FiniteSets, TLC

VARIABLES
    prog,           \* which script runs: "simple1", "simple2", or "fit" (the predictor alone)
    pc,             \* position in the script
    line,           \* the string last returned by input()
    carbon_number,  \* simple1: int(carbon_input), optional
    bp,             \* simple1: predicted boiling point, optional
    calls,          \* simple1: arguments predict_boiling_point received in the last step
    out,            \* what the last step printed (message kind)
    idx,            \* simple2: position in test_monomers (1-based)
    desc,           \* simple2: descriptor vector computed inside predict_tg, optional
    tg_k,           \* simple2: value returned by predict_tg, optional
    tg_c,           \* simple2: tg_k - 273.15, optional
    qa, qb,         \* fit: two query carbon counts
    ya, yb          \* fit: predict_boiling_point(qa), predict_boiling_point(qb), optional

vars == <<prog, pc, line, carbon_number, bp, calls, out, idx, desc, tg_k, tg_c,
          qa, qb, ya, yb>>

simple1_vars == <<carbon_number, bp, calls>>
simple2_vars == <<idx, desc, tg_k, tg_c>>
fit_vars == <<qa, qb, ya, yb>>

None == <<>>
Some(v) == <<v>>
Val(o) == o[1]

----------------------------------------------------------------------------
(* Bounds of the model *)

\* longest string typed at a simple1 prompt
MaxLen == 3
\* largest rotatable-bond count of a descriptor vector
MaxRot == 23
\* largest value of each of the other descriptor counts
MaxCount == 1
\* query carbon counts of the stand-alone predictor range over -MaxCarbon..MaxCarbon
MaxCarbon == 12

----------------------------------------------------------------------------
(* str.lower(), restricted to the letters the model's alphabets contain *)

LowerChar(c) ==
    CASE c = "Q" -> "q"
      [] c = "Y" -> "y"
      [] c = "C" -> "c"
      [] c = "O" -> "o"
      [] c = "N" -> "n"
      [] OTHER -> c

\* variant: the comparison with the sentinel made case-sensitive
lower_omitted(s) == s

lower(s) == [i \in 1..Len(s) |-> LowerChar(s[i])]

----------------------------------------------------------------------------
(* simple2.py: the structural library (rdkit), a black box.                *)
(* Its contract: text -> structure or None; structure -> descriptor        *)
(* values.  Every descriptor call on a parsed structure is taken to return *)
(* a value; which values it returns for which structure is left open.      *)

\* SMILES strings
Styrene == <<"C","=","C","C","1","=","C","C","=","C","C","=","C","1">>
MethylMethacrylate == <<"C","=","C","(","C",")","C","(","=","O",")","O","C">>
VinylAlcohol == <<"C","=","C","O">>
Acrylamide == <<"C","=","C","C","(","=","O",")","N">>
UnbalancedBranch == <<"C","(","C">>
UnclosedRing == <<"C","1","C","C">>
Garbage == <<"?","?">>

\* the notations of the model that the parser accepts
WellFormed == {Styrene, MethylMethacrylate, VinylAlcohol, Acrylamide}

\* Chem.MolFromSmiles: text -> structure, or None when the notation is malformed
MolFromSmiles(smiles) == IF smiles \in WellFormed THEN Some(smiles) ELSE None

\* fixed-point units
KelvinUnit == 10 * 1000
MolWtUnit == 10 * 100

\* molecular weights the library may report (in 1/MolWtUnit): 44.05, 104.152
MolWtSamples == {44050, 104152}

\* the descriptor vectors the library may compute for a parsed structure:
\* every count is a non-negative integer, the weight a non-negative real;
\* aromatic_count is the number of SSSR rings whose atoms are all aromatic
DescriptorSpace ==
    [ MolWt : MolWtSamples,
      NumRotatableBonds : 0..MaxRot,
      NumHDonors : 0..MaxCount,
      NumHAcceptors : 0..MaxCount,
      aromatic_count : 0..MaxCount,
      fr_amide : 0..MaxCount,
      fr_ester : 0..MaxCount,
      fr_ether : 0..MaxCount,
      fr_alcohol : 0..MaxCount ]

----------------------------------------------------------------------------
(* simple2.py: predict_tg *)

base_tg == 150

mw_contrib(d) == (KelvinUnit * d.MolWt) \div (10 * MolWtUnit)
flex_contrib(d) == (-7) * d.NumRotatableBonds * KelvinUnit
hbond_contrib(d) == (10 * (2 * d.NumHDonors + d.NumHAcceptors) * KelvinUnit) \div 2

\* variant: any number of aromatic rings contributes once
aromatic_contrib_once(d) == 30 * (IF d.aromatic_count > 0 THEN 1 ELSE 0) * KelvinUnit

aromatic_contrib(d) == 30 * d.aromatic_count * KelvinUnit
amide_contrib(d) == 50 * d.fr_amide * KelvinUnit
\* variant: the ester weight mistyped
ester_contrib_25(d) == 25 * d.fr_ester * KelvinUnit

ester_contrib(d) == 20 * d.fr_ester * KelvinUnit
ether_contrib(d) == 5 * d.fr_ether * KelvinUnit
\* variant: the alcohol weight mistyped
alcohol_contrib_15(d) == 15 * d.fr_alcohol * KelvinUnit

alcohol_contrib(d) == 25 * d.fr_alcohol * KelvinUnit

predicted_tg(d) ==
    base_tg * KelvinUnit + mw_contrib(d) + flex_contrib(d) + hbond_contrib(d) +
    aromatic_contrib(d) + amide_contrib(d) + ester_contrib(d) +
    ether_contrib(d) + alcohol_contrib(d)

\* variant: the final clamp left out
max0_omitted(x) == x

max0(x) == IF x > 0 THEN x ELSE 0

\* variant: the parse failure is not tested and the scoring stage runs anyway
predict_tg_unguarded(smiles, d) ==
    [desc |-> Some(d), result |-> Some(max0(predicted_tg(d)))]

\* predict_tg(smiles), d being the descriptor vector the library computes when
\* the structure parses.  Yields the descriptors computed (None when the
\* descriptor stage did not run) and the returned value.
predict_tg(smiles, d) ==
    IF MolFromSmiles(smiles) = None
    THEN [desc |-> None, result |-> None]
    ELSE [desc |-> Some(d), result |-> Some(max0(predicted_tg(d)))]

----------------------------------------------------------------------------
(* simple2.py: main *)

\* variant: one example notation with its ring left open
test_monomers_typo ==
    <<Styrene, MethylMethacrylate, VinylAlcohol, UnclosedRing>>

test_monomers == <<Styrene, MethylMethacrylate, VinylAlcohol, Acrylamide>>

\* 273.15 K
KelvinOffset == (27315 * KelvinUnit) \div 100

\* strings typed at the "> " prompt
UserInputs == {VinylAlcohol, Styrene, UnbalancedBranch, UnclosedRing, Garbage,
               <<"q">>, <<"Q">>, <<"q","q">>}

\* one pass of the body of `for name, smiles in test_monomers.items()`:
\* tg_k - 273.15 is evaluated unguarded, so a None raises TypeError out of main
RunExample ==
    /\ prog = "simple2" /\ pc = "examples"
    /\ \E d \in DescriptorSpace :
         LET r == predict_tg(test_monomers[idx], d) IN
         /\ desc' = r.desc
         /\ tg_k' = r.result
         /\ IF r.result = None
            THEN /\ pc' = "raised"
                 /\ tg_c' = None
                 /\ out' = "TypeError"
            ELSE /\ pc' = "example_done"
                 /\ tg_c' = Some(Val(r.result) - KelvinOffset)
                 /\ out' = "tg"
    /\ UNCHANGED <<prog, line, idx>>
    /\ UNCHANGED simple1_vars /\ UNCHANGED fit_vars

\* back to the head of the for loop; the loop's locals are dead until reassigned
NextExample ==
    /\ prog = "simple2" /\ pc = "example_done"
    /\ desc' = None /\ tg_k' = None /\ tg_c' = None
    /\ out' = "none"
    /\ IF idx < Len(test_monomers)
       THEN idx' = idx + 1 /\ pc' = "examples"
       ELSE idx' = idx /\ pc' = "prompt"
    /\ UNCHANGED <<prog, line>>
    /\ UNCHANGED simple1_vars /\ UNCHANGED fit_vars

\* one pass of the body of the `while True` loop of main
ReadSmiles ==
    /\ prog = "simple2" /\ pc = "prompt"
    /\ \E user_input \in UserInputs :
         /\ line' = user_input
         /\ IF lower(user_input) = <<"q">>
            THEN /\ pc' = "done"
                 /\ out' = "none"
                 /\ UNCHANGED <<desc, tg_k, tg_c>>
            ELSE /\ pc' = "answered"
                 /\ \E d \in DescriptorSpace :
                      LET r == predict_tg(user_input, d) IN
                      /\ desc' = r.desc
                      /\ tg_k' = r.result
                      /\ IF r.result = None
                         THEN tg_c' = None /\ out' = "invalid_smiles"
                         ELSE /\ tg_c' = Some(Val(r.result) - KelvinOffset)
                              /\ out' = "tg"
    /\ UNCHANGED <<prog, idx>>
    /\ UNCHANGED simple1_vars /\ UNCHANGED fit_vars

\* back to the head of the while loop; the loop's locals are dead until reassigned
NextSmiles ==
    /\ prog = "simple2" /\ pc = "answered"
    /\ pc' = "prompt"
    /\ line' = <<>> /\ desc' = None /\ tg_k' = None /\ tg_c' = None
    /\ out' = "none"
    /\ UNCHANGED <<prog, idx>>
    /\ UNCHANGED simple1_vars /\ UNCHANGED fit_vars

----------------------------------------------------------------------------
(* simple1.py: predict_boiling_point *)

\* known data: carbon numbers C1..C10 and boiling points, in tenths of a degree C
carbon_numbers == <<1, 2, 3, 4, 5, 6, 7, 8, 9, 10>>
boiling_points == <<-1615, -886, -421, -5, 361, 687, 984, 1257, 1508, 1740>>

RECURSIVE SumSeq(_)
SumSeq(s) == IF s = <<>> THEN 0 ELSE Head(s) + SumSeq(Tail(s))

RECURSIVE Gcd(_, _)
Gcd(a, b) == IF b = 0 THEN a ELSE Gcd(b, a % b)

Abs(x) == IF x < 0 THEN -x ELSE x

n_samples == Len(carbon_numbers)

\* LinearRegression.fit centres X and y on their means (here scaled by the
\* number of samples so that the centred values stay integers)
X_centered == [i \in 1..n_samples |-> n_samples * carbon_numbers[i] - SumSeq(carbon_numbers)]
y_centered == [i \in 1..n_samples |-> n_samples * boiling_points[i] - SumSeq(boiling_points)]

\* least squares on the centred data: coef_ = sum(xc*yc) / sum(xc*xc), as a reduced fraction
coef_ ==
    LET sxy == SumSeq([i \in 1..n_samples |-> X_centered[i] * y_centered[i]])
        sxx == SumSeq([i \in 1..n_samples |-> X_centered[i] * X_centered[i]])
        g == Gcd(Abs(sxy), sxx)
    IN  [num |-> sxy \div g, den |-> sxx \div g]

\* every prediction is a fraction over FitDen, in tenths of a degree C
FitDen == n_samples * coef_.den

\* intercept_ = mean(y) - mean(X) * coef_, as a numerator over FitDen
intercept_ == SumSeq(boiling_points) * coef_.den - SumSeq(carbon_numbers) * coef_.num

\* variant: the reference counts answered from the table instead of from the fit
predict_boiling_point_table(c) ==
    IF c \in 1..n_samples
    THEN boiling_points[c] * FitDen
    ELSE intercept_ + n_samples * coef_.num * c

\* variant: the slope term subtracted
predict_boiling_point_negated(c) ==
    intercept_ - n_samples * coef_.num * c

\* model.predict([[carbon_number]])[0], as a numerator over FitDen
predict_boiling_point(c) ==
    intercept_ + n_samples * coef_.num * c

----------------------------------------------------------------------------
(* simple1.py: int(), restricted to the characters of the model's alphabet *)

Chars == {"q", "Q", "y", "-", "0", "1", " "}

\* the strings a user may type, up to MaxLen characters
Typed == UNION {[1..n -> Chars] : n \in 0..MaxLen}

IsDigit(c) == c \in {"0", "1", "2", "3", "4", "5", "6", "7", "8", "9"}

DigitValue(c) ==
    CASE c = "0" -> 0 [] c = "1" -> 1 [] c = "2" -> 2 [] c = "3" -> 3 [] c = "4" -> 4
      [] c = "5" -> 5 [] c = "6" -> 6 [] c = "7" -> 7 [] c = "8" -> 8 [] c = "9" -> 9

RECURSIVE lstrip(_)
lstrip(s) == IF s # <<>> /\ Head(s) = " " THEN lstrip(Tail(s)) ELSE s

RECURSIVE rstrip(_)
rstrip(s) ==
    IF s # <<>> /\ s[Len(s)] = " " THEN rstrip(SubSeq(s, 1, Len(s) - 1)) ELSE s

RECURSIVE DigitsValue(_)
DigitsValue(s) ==
    IF s = <<>> THEN 0
    ELSE 10 * DigitsValue(SubSeq(s, 1, Len(s) - 1)) + DigitValue(s[Len(s)])

\* int(s): surrounding whitespace is ignored, then an optional sign and one or
\* more decimal digits; anything else raises ValueError (None)
int(s) ==
    LET t == rstrip(lstrip(s))
        signed == t # <<>> /\ t[1] \in {"-", "+"}
        digits == IF signed THEN Tail(t) ELSE t
    IN  IF digits # <<>> /\ \A i \in 1..Len(digits) : IsDigit(digits[i])
        THEN Some(IF signed /\ t[1] = "-" THEN -DigitsValue(digits) ELSE DigitsValue(digits))
        ELSE None

----------------------------------------------------------------------------
(* simple1.py: plot_boiling_points and the prompt loop *)

\* range(1, max_carbon + 1): the carbon counts plot_boiling_points predicts for
carbon_range(max_carbon) == 1..max_carbon

\* variant: zero let through
not_positive_strict(c) == c < 0

\* the test `carbon_number <= 0` of the prompt loop
not_positive(c) == c <= 0

\* the first prompt of an iteration: the carbon count, or 'q'
ReadCarbon ==
    /\ prog = "simple1" /\ pc = "prompt"
    /\ \E carbon_input \in Typed :
         /\ line' = carbon_input
         /\ IF lower(carbon_input) = <<"q">>
            THEN /\ pc' = "done"
                 /\ out' = "none"
                 /\ UNCHANGED <<carbon_number, bp, calls>>
            ELSE IF int(carbon_input) = None
            THEN /\ pc' = "iter_end"
                 /\ out' = "invalid_number"
                 /\ UNCHANGED <<carbon_number, bp, calls>>
            ELSE IF not_positive(Val(int(carbon_input)))
            THEN /\ pc' = "iter_end"
                 /\ out' = "not_positive"
                 /\ carbon_number' = int(carbon_input)
                 /\ UNCHANGED <<bp, calls>>
            ELSE /\ pc' = "ask_graph"
                 /\ out' = "bp"
                 /\ carbon_number' = int(carbon_input)
                 /\ bp' = Some(predict_boiling_point(Val(int(carbon_input))))
                 /\ calls' = {Val(int(carbon_input))}
    /\ UNCHANGED prog
    /\ UNCHANGED simple2_vars /\ UNCHANGED fit_vars

\* the second prompt: show the graph? (y/n)
ReadShowGraph ==
    /\ prog = "simple1" /\ pc = "ask_graph"
    /\ \E show_graph \in Typed :
         /\ line' = show_graph
         /\ pc' = IF lower(show_graph) = <<"y">> THEN "ask_max" ELSE "iter_end"
    /\ calls' = {}
    /\ out' = "none"
    /\ UNCHANGED <<prog, carbon_number, bp>>
    /\ UNCHANGED simple2_vars /\ UNCHANGED fit_vars

\* the third prompt: the maximum carbon count, then plot_boiling_points(max_c)
ReadMax ==
    /\ prog = "simple1" /\ pc = "ask_max"
    /\ \E max_input \in Typed :
         /\ line' = max_input
         /\ IF int(max_input) = None
            THEN out' = "invalid_number" /\ calls' = {}
            ELSE out' = "plot" /\ calls' = carbon_range(Val(int(max_input)))
    /\ pc' = "iter_end"
    /\ UNCHANGED <<prog, carbon_number, bp>>
    /\ UNCHANGED simple2_vars /\ UNCHANGED fit_vars

\* back to the head of the while loop (through the blank-line print(), or
\* through `continue`); the loop's locals are dead until reassigned
NextCarbon ==
    /\ prog = "simple1" /\ pc = "iter_end"
    /\ pc' = "prompt"
    /\ line' = <<>> /\ carbon_number' = None /\ bp' = None /\ calls' = {}
    /\ out' = "none"
    /\ UNCHANGED prog
    /\ UNCHANGED simple2_vars /\ UNCHANGED fit_vars

----------------------------------------------------------------------------
(* The programs *)

Init ==
    /\ prog \in {"simple1", "simple2"}
    /\ pc = IF prog = "simple1" THEN "prompt" ELSE "examples"
    /\ line = <<>>
    /\ carbon_number = None /\ bp = None /\ calls = {}
    /\ out = "none"
    /\ idx = 1 /\ desc = None /\ tg_k = None /\ tg_c = None
    /\ qa = 0 /\ qb = 0 /\ ya = None /\ yb = None

Next ==
    \/ ReadCarbon
    \/ ReadShowGraph
    \/ ReadMax
    \/ NextCarbon
    \/ RunExample
    \/ NextExample
    \/ ReadSmiles
    \/ NextSmiles

Spec == Init /\ [][Next]_vars

----------------------------------------------------------------------------
(* The boiling-point predictor alone, applied to two query carbon counts *)

QueryCounts == (-MaxCarbon)..MaxCarbon

InitFit ==
    /\ prog = "fit"
    /\ pc = "fit_query"
    /\ qa \in QueryCounts /\ qb \in QueryCounts
    /\ ya = None /\ yb = None
    /\ line = <<>>
    /\ carbon_number = None /\ bp = None /\ calls = {}
    /\ out = "none"
    /\ idx = 1 /\ desc = None /\ tg_k = None /\ tg_c = None

Evaluate ==
    /\ prog = "fit" /\ pc = "fit_query"
    /\ ya' = Some(predict_boiling_point(qa))
    /\ yb' = Some(predict_boiling_point(qb))
    /\ pc' = "fit_done"
    /\ UNCHANGED <<prog, line, out, qa, qb>>
    /\ UNCHANGED simple1_vars /\ UNCHANGED simple2_vars

NextFit == Evaluate

SpecFit == InitFit /\ [][NextFit]_vars

----------------------------------------------------------------------------
(* Properties *)

\* the SMILES string handed to predict_tg in the current loop pass
CurrentSmiles == IF pc \in {"example_done", "raised"} THEN test_monomers[idx] ELSE line

\* predict_tg has returned in the current loop pass
TgReturned == prog = "simple2" /\ pc \in {"example_done", "raised", "answered"}

\* C1: whenever the parse of the input fails, predict_tg returns None and never
\* a number; no descriptor is computed, no score or clamp is applied, and the
\* interactive loop reports the invalid notation.
C1_ParseFailureYieldsNone ==
    (TgReturned /\ CurrentSmiles \notin WellFormed) =>
        /\ tg_k = None
        /\ desc = None
        /\ tg_c = None
        /\ pc = "answered" => out = "invalid_smiles"

C1_Witness ==
    /\ prog = "simple2" /\ pc = "answered"
    /\ line = UnbalancedBranch
    /\ tg_k = None /\ desc = None

\* C2: for every parsed structure, whatever its descriptor vector, the returned
\* Tg is >= 0, and it is exactly 0 whenever the raw additive sum is < 0.
C2_ClampedAtZero ==
    (TgReturned /\ desc # None) =>
        /\ tg_k # None
        /\ Val(tg_k) >= 0
        /\ predicted_tg(Val(desc)) < 0 => Val(tg_k) = 0

C2_Witness ==
    /\ TgReturned /\ desc # None
    /\ predicted_tg(Val(desc)) < 0
    /\ tg_k = Some(0)

\* the formula of the specification, in 1/KelvinUnit K:
\* 150 + 0.1*MW - 7*Rot + 10*(HD + 0.5*HA) + 30*Arom + 50*Amide + 20*Ester
\*     + 5*Ether + 25*Alcohol, with MW in 1/MolWtUnit
StatedSum(d) ==
    1500000 + d.MolWt - 70000 * d.NumRotatableBonds
    + 100000 * d.NumHDonors + 50000 * d.NumHAcceptors
    + 300000 * d.aromatic_count + 500000 * d.fr_amide + 200000 * d.fr_ester
    + 50000 * d.fr_ether + 250000 * d.fr_alcohol

\* C3: for every descriptor vector of a parsed structure the result equals
\* max(0, 150 + 0.1*MW - 7*Rot + 10*(HD + 0.5*HA) + 30*Arom + 50*Amide
\*        + 20*Ester + 5*Ether + 25*Alcohol).
C3_ScoringFormula ==
    (TgReturned /\ desc # None) =>
        tg_k = Some(IF StatedSum(Val(desc)) > 0 THEN StatedSum(Val(desc)) ELSE 0)

C3_Witness ==
    /\ TgReturned /\ desc # None
    /\ Val(desc).NumRotatableBonds > 0 /\ Val(desc).NumHDonors > 0
    /\ Val(desc).NumHAcceptors > 0 /\ Val(desc).aromatic_count > 0
    /\ Val(desc).fr_amide > 0 /\ Val(desc).fr_ester > 0
    /\ Val(desc).fr_ether > 0 /\ Val(desc).fr_alcohol > 0
    /\ tg_k # None /\ Val(tg_k) > 0

\* the descriptor vector the specification gives for "C=CO" (MW 44.05)
VinylAlcoholDescriptors ==
    [ MolWt |-> 44050, NumRotatableBonds |-> 0, NumHDonors |-> 1,
      NumHAcceptors |-> 1, aromatic_count |-> 0, fr_amide |-> 0,
      fr_ester |-> 0, fr_ether |-> 0, fr_alcohol |-> 1 ]

\* C4 as stated: for the descriptor vector given for "C=CO" the formula yields
\* approximately 184.9 K (here: within 0.5 K of 184.9).
C4_VinylAlcoholIs184_9 ==
    (TgReturned /\ desc = Some(VinylAlcoholDescriptors)) =>
        /\ tg_k # None
        /\ Val(tg_k) >= 1844000 /\ Val(tg_k) <= 1854000

\* C4 amended: for the descriptor vector given for "C=CO" the formula yields
\* 150 + 4.405 + 15 + 25 = 194.405 K, approximately 194.4 K.
C4_VinylAlcoholIs194_4 ==
    (TgReturned /\ desc = Some(VinylAlcoholDescriptors)) =>
        tg_k = Some(1944050)

C4_Witness ==
    /\ TgReturned /\ CurrentSmiles = VinylAlcohol
    /\ desc = Some(VinylAlcoholDescriptors)
    /\ tg_k = Some(1944050)

\* C5: raising AromaticRingCount by 1 with every other descriptor fixed raises
\* the Tg that predict_tg returns by exactly 30 K, unless a result is clamped
\* at the 0 floor (the raw sum of the lower vector is negative).
C5_AromaticRingAdds30 ==
    (TgReturned /\ desc # None) =>
        LET d == Val(desc)
            raised == [d EXCEPT !.aromatic_count = @ + 1]
            tg_raised == Val(predict_tg(CurrentSmiles, raised).result)
        IN  predicted_tg(d) >= 0 => tg_raised - Val(tg_k) = 30 * KelvinUnit

C5_Witness ==
    /\ TgReturned /\ desc # None
    /\ Val(desc).aromatic_count = 1
    /\ predicted_tg(Val(desc)) >= 0
    /\ Val(predict_tg(CurrentSmiles,
                      [Val(desc) EXCEPT !.aromatic_count = 2]).result)
         = Val(tg_k) + 30 * KelvinUnit

\* the ordinary-least-squares line over the reference pairs from the raw sums:
\* slope = (n*Sxy - Sx*Sy) / (n*Sxx - Sx*Sx), line(c) = Sy/n + slope*(c - Sx/n),
\* as a numerator over OlsDen, in tenths of a degree C
OlsSx == SumSeq(carbon_numbers)
OlsSy == SumSeq(boiling_points)
OlsSxx == SumSeq([i \in 1..Len(carbon_numbers) |-> carbon_numbers[i] * carbon_numbers[i]])
OlsSxy == SumSeq([i \in 1..Len(carbon_numbers) |-> carbon_numbers[i] * boiling_points[i]])
OlsSlopeNum == Len(carbon_numbers) * OlsSxy - OlsSx * OlsSy
OlsSlopeDen == Len(carbon_numbers) * OlsSxx - OlsSx * OlsSx
OlsDen == Len(carbon_numbers) * OlsSlopeDen
OlsLine(c) == OlsSy * OlsSlopeDen + OlsSlopeNum * (Len(carbon_numbers) * c - OlsSx)

\* C6: for each reference carbon count 1..10 the prediction equals the
\* least-squares line over the 10 reference pairs evaluated at that count
\* (ya/FitDen = OlsLine/OlsDen); the value at 1 is not the table's -161.5.
C6_MatchesLeastSquares ==
    (prog = "fit" /\ pc = "fit_done" /\ qa \in 1..Len(carbon_numbers)) =>
        /\ OlsSlopeDen > 0
        /\ OlsDen % FitDen = 0
        /\ Val(ya) * (OlsDen \div FitDen) = OlsLine(qa)
        /\ qa = 1 => Val(ya) # boiling_points[1] * FitDen

C6_Witness ==
    /\ prog = "fit" /\ pc = "fit_done" /\ qa = 1
    /\ ya # None
    /\ Val(ya) * (OlsDen \div FitDen) = OlsLine(1)
    /\ Val(ya) # boiling_points[1] * FitDen

\* C7: for all integer carbon counts a < b, inside or outside 1..10,
\* predict_boiling_point(a) < predict_boiling_point(b); the fitted slope is
\* strictly positive.
C7_StrictlyIncreasing ==
    (prog = "fit" /\ pc = "fit_done") =>
        /\ qa < qb => Val(ya) < Val(yb)
        /\ predict_boiling_point(qa + 1) > Val(ya)

C7_Witness ==
    /\ prog = "fit" /\ pc = "fit_done"
    /\ qa < 0 /\ qb > Len(carbon_numbers)
    /\ Val(ya) < Val(yb)

\* C8: predict_boiling_point is only ever invoked with a positive integer; a
\* non-integer or non-positive carbon count typed at the prompt is reported as
\* an input error and never reaches the predictor; the calls made by
\* plot_boiling_points are positive too, for any maximum, also one <= 0.
C8_PredictorGuarded ==
    prog = "simple1" =>
        /\ \A c \in calls : c \in Nat /\ c >= 1
        /\ bp # None => (carbon_number # None /\ Val(carbon_number) >= 1)
        /\ (carbon_number # None /\ Val(carbon_number) <= 0) =>
               (out = "not_positive" /\ bp = None /\ calls = {} /\ pc = "iter_end")
        /\ (pc = "iter_end" /\ carbon_number = None) =>
               (out = "invalid_number" /\ bp = None /\ calls = {})
        /\ (pc = "iter_end" /\ out = "plot" /\ Val(int(line)) <= 0) => calls = {}

C8_Witness ==
    /\ prog = "simple1" /\ pc = "iter_end"
    /\ line = <<"0">> /\ carbon_number = Some(0)
    /\ out = "not_positive" /\ calls = {} /\ bp = None

\* the sentinel: 'q' in either case
IsSentinel(s) == s \in {<<"q">>, <<"Q">>}

\* the messages that report an invalid input
ErrorMessages == {"invalid_number", "not_positive", "invalid_smiles"}

\* C9: in both prompt loops, after any invalid input the loop reports the error
\* and returns to its main prompt without terminating; the loop terminates
\* when, and only when, the sentinel 'q' (in either case) is entered at the
\* main prompt.
C9_LoopsStopOnlyOnSentinel ==
    [][ /\ (pc = "prompt" /\ IsSentinel(line')) => pc' = "done"
        /\ (pc' \in {"done", "raised"}) => (pc = "prompt" /\ IsSentinel(line'))
        /\ out' \in ErrorMessages => pc' \in {"iter_end", "answered"}
        /\ pc \in {"iter_end", "answered"} => pc' = "prompt"
      ]_vars

C9_Witness ==
    /\ pc = "iter_end" /\ out = "invalid_number"
    /\ carbon_number # None /\ bp # None

\* C10: in every run of main() of simple2 the Kelvin-to-Celsius conversion and
\* the formatting are applied only to a numeric Tg, never to None, at both call
\* sites of predict_tg; no exception escapes main().
C10_ConversionOnlyOfNumbers ==
    prog = "simple2" =>
        /\ pc # "raised"
        /\ tg_c # None => (tg_k # None /\ Val(tg_c) = Val(tg_k) - 2731500)
        /\ out = "tg" => (tg_k # None /\ tg_c # None)
        /\ pc = "example_done" => tg_c # None

C10_Witness ==
    /\ prog = "simple2" /\ pc = "example_done" /\ idx = Len(test_monomers)
    /\ tg_k # None /\ tg_c # None /\ out = "tg"

====
